---- MODULE Spec2Model ----
(***************************************************************************)
(* TextMAP tokenizers (textmap/tokenizers.py): NLTKTokenizer.fit and       *)
(* CountVectorizerTokenizer.fit, i.e. tokenization followed by iterated    *)
(* contraction of bigrams whose likelihood-ratio score exceeds             *)
(* min_MWE_PMI.                                                            *)
(*                                                                         *)
(* A token is a sequence of characters, a sentence a sequence of tokens, a *)
(* document a sequence of sentences.  A raw document is given already      *)
(* segmented (what sent_tokenize and the whitespace split of its words     *)
(* yield); the empty string is the document with no sentence.  Scores are  *)
(* fixed-point numbers in thousandths (natural logarithm rounded to three  *)
(* decimals), and so is min_MWE_PMI.                                       *)
(***************************************************************************)
EXTENDS Integers, Sequences, FiniteSets, TLC

VARIABLES
    tokenizer_class,         \* "NLTKTokenizer" or "CountVectorizerTokenizer"
    lower_case,              \* self.lower_case
    max_MWE_iterations,      \* self.max_MWE_iterations
    min_MWE_PMI,             \* self.min_MWE_PMI, in thousandths
    X,                       \* the argument of fit
    tokens_by_sent_by_doc_,  \* self.tokens_by_sent_by_doc_
    i,                       \* values of range(max_MWE_iterations) consumed so far
    bigramer,                \* the BigramCollocationFinder of the iteration
    mwes,                    \* the bigrams above_score returned
    pc                       \* position of the control in fit

vars == <<tokenizer_class, lower_case, max_MWE_iterations, min_MWE_PMI, X,
          tokens_by_sent_by_doc_, i, bigramer, mwes, pc>>

(***************************************************************************)
(* Bounds of the model and defaults of the program.                        *)
(***************************************************************************)
MaxWords == 4

\* a collection holds up to two documents, a document up to two sentences
DocCounts == { 0, 1, 2 }
SentCounts == { 0, 1, 2 }

DefaultMaxIterations == 2
DefaultMinPMI == 12

Vocabulary == { <<"a">>, <<"B", "c">>, <<"d", "_", "e">> }

IterationChoices == (0 - 1) .. DefaultMaxIterations

\* 2772 is the score of the only bigram of a two-token corpus (4 ln 2).
MinPMIChoices == { 0, 2772, DefaultMinPMI * 1000 }

ConfigChoices ==
    { <<"NLTKTokenizer", FALSE>>, <<"NLTKTokenizer", TRUE>>,
      <<"CountVectorizerTokenizer", FALSE>> }

(***************************************************************************)
(* The inputs: collections of documents of sentences, MaxWords words in    *)
(* all.  A raw sentence has at least one word.                             *)
(***************************************************************************)
RawSentences(n) == UNION { [1..k -> Vocabulary] : k \in 1..n }

RECURSIVE RawDocsOf(_, _)
RawDocsOf(k, n) ==
    IF k = 0 THEN { <<>> }
    ELSE UNION { { <<s>> \o d : d \in RawDocsOf(k - 1, n - Len(s)) } :
                 s \in RawSentences(n) }

RawDocs(n) == UNION { RawDocsOf(k, n) : k \in SentCounts }

RECURSIVE Flatten(_)
Flatten(seqs) ==
    IF seqs = <<>> THEN <<>> ELSE Head(seqs) \o Flatten(Tail(seqs))

RECURSIVE CollectionsOf(_, _)
CollectionsOf(k, n) ==
    IF k = 0 THEN { <<>> }
    ELSE UNION { { <<d>> \o c : c \in CollectionsOf(k - 1, n - Len(Flatten(d))) } :
                 d \in RawDocs(n) }

Collections == UNION { CollectionsOf(k, MaxWords) : k \in DocCounts }

(***************************************************************************)
(* Tokenization (fit, first statement).                                    *)
(***************************************************************************)
Lower(c) == IF c = "B" THEN "b" ELSE c

LowerWord(w) == [k \in 1..Len(w) |-> Lower(w[k])]

\* word_tokenize on a sentence of plain words
word_tokenize(sent) == sent

\* CountVectorizer's token_pattern keeps the words of two or more characters
cv_word_tokenize(sent) == SelectSeq(sent, LAMBDA w : Len(w) >= 2)

LowerSent(sent) == [k \in 1..Len(sent) |-> LowerWord(sent[k])]

NLTKTokenize(lc, docs) ==
    [d \in 1..Len(docs) |->
        [s \in 1..Len(docs[d]) |->
            IF lc THEN word_tokenize(LowerSent(docs[d][s]))
            ELSE word_tokenize(docs[d][s])]]

CVTokenize(docs) ==
    [d \in 1..Len(docs) |->
        [s \in 1..Len(docs[d]) |-> cv_word_tokenize(LowerSent(docs[d][s]))]]

\* seeded fault: empty documents are skipped ("for doc in X if doc")
Tokenize_SkipEmpty(cls, lc, docs) ==
    SelectSeq(IF cls = "NLTKTokenizer" THEN NLTKTokenize(lc, docs) ELSE CVTokenize(docs),
              LAMBDA d : d # <<>>)

Tokenize(cls, lc, docs) ==
    IF cls = "NLTKTokenizer" THEN NLTKTokenize(lc, docs) ELSE CVTokenize(docs)

(***************************************************************************)
(* The accessors of BaseTokenizer.                                         *)
(***************************************************************************)
tokens_by_sent(t) == Flatten(t)

tokens_by_doc(t) == [d \in 1..Len(t) |-> Flatten(t[d])]

(***************************************************************************)
(* BigramCollocationFinder.from_documents: word and bigram frequencies;    *)
(* a bigram never spans two sentences.                                     *)
(***************************************************************************)
WordPositions(sents) ==
    UNION { { <<s, k>> : k \in 1..Len(sents[s]) } : s \in 1..Len(sents) }

BigramPositions(sents) ==
    { p \in WordPositions(sents) : p[2] + 1 <= Len(sents[p[1]]) }

from_documents(sents) ==
    LET words == { sents[p[1]][p[2]] : p \in WordPositions(sents) }
        grams == { <<sents[p[1]][p[2]], sents[p[1]][p[2] + 1]>> :
                   p \in BigramPositions(sents) }
    IN  [ word_fd  |-> [w \in words |->
                          Cardinality({ p \in WordPositions(sents) :
                                        sents[p[1]][p[2]] = w })],
          ngram_fd |-> [g \in grams |->
                          Cardinality({ p \in BigramPositions(sents) :
                                        <<sents[p[1]][p[2]], sents[p[1]][p[2] + 1]>> = g })],
          N        |-> Cardinality(WordPositions(sents)) ]

NoFinder == [ word_fd |-> <<>>, ngram_fd |-> <<>>, N |-> 0 ]

(***************************************************************************)
(* BigramAssocMeasures.likelihood_ratio on the marginals score_ngram       *)
(* passes: 2 * sum over the cells of the contingency table of              *)
(* obs * ln(obs / (exp + _SMALL) + _SMALL).  A cell with obs = 0           *)
(* contributes 0; a cell with obs < 0 makes math.log raise ValueError.     *)
(***************************************************************************)
\* Ln[n] = round(1000 * ln n), n in 1..64
Ln ==
    << 0, 693, 1099, 1386, 1609, 1792, 1946, 2079, 2197, 2303, 2398, 2485,
       2565, 2639, 2708, 2773, 2833, 2890, 2944, 2996, 3045, 3091, 3135, 3178,
       3219, 3258, 3296, 3332, 3367, 3401, 3434, 3466, 3497, 3526, 3555, 3584,
       3611, 3638, 3664, 3689, 3714, 3738, 3761, 3784, 3807, 3829, 3850, 3871,
       3892, 3912, 3932, 3951, 3970, 3989, 4007, 4025, 4043, 4060, 4078, 4094,
       4111, 4127, 4143, 4159 >>

\* BigramAssocMeasures._contingency: <<n_ii, n_oi, n_io, n_oo>>
Contingency(n_ii, n_ix, n_xi, n_xx) ==
    << n_ii, n_xi - n_ii, n_ix - n_ii, n_xx - n_ii - (n_xi - n_ii) - (n_ix - n_ii) >>

\* the two marginal sums whose product over n_xx is the expected value of cell c
RowSum(cont, c) == cont[c] + (IF c = 1 THEN cont[2] ELSE IF c = 2 THEN cont[1]
                              ELSE IF c = 3 THEN cont[4] ELSE cont[3])

ColSum(cont, c) == cont[c] + (IF c = 1 THEN cont[3] ELSE IF c = 2 THEN cont[4]
                              ELSE IF c = 3 THEN cont[1] ELSE cont[2])

\* obs * ln(obs / exp) for a table without negative cell: exp > 0 when obs > 0
CellTerm(cont, c, n_xx) ==
    IF cont[c] = 0 THEN 0
    ELSE cont[c] * (Ln[cont[c] * n_xx] - Ln[RowSum(cont, c)] - Ln[ColSum(cont, c)])

MathDomainError(n_ii, n_ix, n_xi, n_xx) ==
    \E c \in 1..4 : Contingency(n_ii, n_ix, n_xi, n_xx)[c] < 0

likelihood_ratio(n_ii, n_ix, n_xi, n_xx) ==
    LET cont == Contingency(n_ii, n_ix, n_xi, n_xx)
    IN  2 * (CellTerm(cont, 1, n_xx) + CellTerm(cont, 2, n_xx)
             + CellTerm(cont, 3, n_xx) + CellTerm(cont, 4, n_xx))

\* BigramCollocationFinder.score_ngram with the likelihood ratio
score_ngram(finder, g) ==
    likelihood_ratio(finder.ngram_fd[g], finder.word_fd[g[1]],
                     finder.word_fd[g[2]], finder.N)

ScoringRaises(finder) ==
    \E g \in DOMAIN finder.ngram_fd :
        MathDomainError(finder.ngram_fd[g], finder.word_fd[g[1]],
                        finder.word_fd[g[2]], finder.N)

\* seeded fault: inclusive comparison
above_score_inclusive(finder, min_score) ==
    { g \in DOMAIN finder.ngram_fd : score_ngram(finder, g) >= min_score }

\* above_score: the bigrams whose score exceeds min_score
above_score(finder, min_score) ==
    { g \in DOMAIN finder.ngram_fd : score_ngram(finder, g) > min_score }

(***************************************************************************)
(* MWETokenizer(mwes): every entry of the trie is a pair, so a match is    *)
(* two tokens long; the scan is left to right and resumes after a match.   *)
(***************************************************************************)
\* seeded fault: empty separator
Join_nosep(x, y) == x \o y

Join(x, y) == x \o <<"_">> \o y

\* seeded fault: the scan resumes one token after the start of a match
RECURSIVE MWETokenize_overlap(_, _)
MWETokenize_overlap(pairs, text) ==
    IF text = <<>> THEN <<>>
    ELSE IF Len(text) >= 2 /\ <<text[1], text[2]>> \in pairs
         THEN <<Join(text[1], text[2])>> \o MWETokenize_overlap(pairs, Tail(text))
         ELSE <<text[1]>> \o MWETokenize_overlap(pairs, Tail(text))

\* seeded fault: a match at the end of the sentence is missed (j + 1 < n)
RECURSIVE MWETokenize_lookahead(_, _)
MWETokenize_lookahead(pairs, text) ==
    IF text = <<>> THEN <<>>
    ELSE IF Len(text) >= 3 /\ <<text[1], text[2]>> \in pairs
         THEN <<Join(text[1], text[2])>>
              \o MWETokenize_lookahead(pairs, SubSeq(text, 3, Len(text)))
         ELSE <<text[1]>> \o MWETokenize_lookahead(pairs, Tail(text))

\* seeded fault: the scan stops after the first match of a sentence
RECURSIVE MWETokenize_first(_, _)
MWETokenize_first(pairs, text) ==
    IF text = <<>> THEN <<>>
    ELSE IF Len(text) >= 2 /\ <<text[1], text[2]>> \in pairs
         THEN <<Join(text[1], text[2])>> \o SubSeq(text, 3, Len(text))
         ELSE <<text[1]>> \o MWETokenize_first(pairs, Tail(text))

RECURSIVE MWETokenize(_, _)
MWETokenize(pairs, text) ==
    IF text = <<>> THEN <<>>
    ELSE IF Len(text) >= 2 /\ <<text[1], text[2]>> \in pairs
         THEN <<Join(text[1], text[2])>> \o MWETokenize(pairs, SubSeq(text, 3, Len(text)))
         ELSE <<text[1]>> \o MWETokenize(pairs, Tail(text))

\* seeded fault: the document is contracted as one sentence
tokenize_sents_flat(pairs, doc) ==
    IF doc = <<>> THEN <<>> ELSE << MWETokenize(pairs, Flatten(doc)) >>

tokenize_sents(pairs, doc) == [s \in 1..Len(doc) |-> MWETokenize(pairs, doc[s])]

Contract(pairs, t) == [d \in 1..Len(t) |-> tokenize_sents(pairs, t[d])]

(***************************************************************************)
(* fit                                                                     *)
(***************************************************************************)
\* seeded faults: "while i != n" and "i <= n"
RangeHasNext_ne(k, n) == k # n

RangeHasNext_le(k, n) == k <= n

\* for i in range(n): whether the range yields a value after k of them
RangeHasNext(k, n) == k < n

Init ==
    /\ \E c \in ConfigChoices : tokenizer_class = c[1] /\ lower_case = c[2]
    /\ max_MWE_iterations \in IterationChoices
    /\ min_MWE_PMI \in MinPMIChoices
    /\ X \in Collections
    /\ tokens_by_sent_by_doc_ = <<>>
    /\ i = 0
    /\ bigramer = NoFinder
    /\ mwes = {}
    /\ pc = "Start"

FitTokenize ==
    /\ pc = "Start"
    /\ tokens_by_sent_by_doc_' = Tokenize(tokenizer_class, lower_case, X)
    /\ pc' = IF RangeHasNext(0, max_MWE_iterations) THEN "Scoring" ELSE "Converged"
    /\ UNCHANGED <<tokenizer_class, lower_case, max_MWE_iterations, min_MWE_PMI, X,
                   i, bigramer, mwes>>

Scoring ==
    /\ pc = "Scoring"
    /\ bigramer' = from_documents(tokens_by_sent(tokens_by_sent_by_doc_))
    /\ pc' = "Selecting"
    /\ UNCHANGED <<tokenizer_class, lower_case, max_MWE_iterations, min_MWE_PMI, X,
                   tokens_by_sent_by_doc_, i, mwes>>

SelectRaise ==
    /\ pc = "Selecting"
    /\ ScoringRaises(bigramer)
    /\ pc' = "Raised"
    /\ UNCHANGED <<tokenizer_class, lower_case, max_MWE_iterations, min_MWE_PMI, X,
                   tokens_by_sent_by_doc_, i, bigramer, mwes>>

\* seeded fault: no break on an empty list
Selecting_NoBreak ==
    /\ pc = "Selecting"
    /\ ~ScoringRaises(bigramer)
    /\ mwes' = above_score(bigramer, min_MWE_PMI)
    /\ pc' = "Contracting"
    /\ UNCHANGED <<tokenizer_class, lower_case, max_MWE_iterations, min_MWE_PMI, X,
                   tokens_by_sent_by_doc_, i, bigramer>>

Selecting ==
    /\ pc = "Selecting"
    /\ ~ScoringRaises(bigramer)
    /\ mwes' = above_score(bigramer, min_MWE_PMI)
    /\ pc' = IF mwes' = {} THEN "Converged" ELSE "Contracting"
    /\ UNCHANGED <<tokenizer_class, lower_case, max_MWE_iterations, min_MWE_PMI, X,
                   tokens_by_sent_by_doc_, i, bigramer>>

Contracting ==
    /\ pc = "Contracting"
    /\ tokens_by_sent_by_doc_' = Contract(mwes, tokens_by_sent_by_doc_)
    /\ i' = i + 1
    /\ pc' = IF RangeHasNext(i + 1, max_MWE_iterations) THEN "Scoring" ELSE "Converged"
    /\ UNCHANGED <<tokenizer_class, lower_case, max_MWE_iterations, min_MWE_PMI, X,
                   bigramer, mwes>>

Next == FitTokenize \/ Scoring \/ SelectRaise \/ Selecting \/ Contracting

Spec == Init /\ [][Next]_vars

(***************************************************************************)
(* Properties                                                              *)
(***************************************************************************)
\* what the first statement of fit stores
TokenizerOutput == Tokenize(tokenizer_class, lower_case, X)

Terminated == pc \in { "Converged", "Raised" }

\* the bigrams adjacent in some sentence of the structure t
AdjacentBigrams(t) ==
    UNION { UNION { { <<t[d][s][k], t[d][s][k + 1]>> : k \in 1..Len(t[d][s]) - 1 } :
                    s \in 1..Len(t[d]) } : d \in 1..Len(t) }

TotalTokens(t) == Len(Flatten(Flatten(t)))

SameShape(t, u) ==
    /\ Len(t) = Len(u)
    /\ \A d \in 1..Len(t) : Len(t[d]) = Len(u[d])

\* above_score has returned for the structure now stored
SelectionDone ==
    \/ pc = "Contracting"
    \/ pc = "Converged" /\ i < max_MWE_iterations

\* C1 (as stated): after selection, mwes is exactly the set of the adjacent
\* bigrams of the corpus whose score is greater than or equal to min_MWE_PMI.
C1_Inclusive ==
    SelectionDone =>
        mwes = { g \in AdjacentBigrams(tokens_by_sent_by_doc_) :
                 score_ngram(bigramer, g) >= min_MWE_PMI }

\* C1 (amended): after selection, mwes is exactly the set of the adjacent
\* bigrams of the corpus whose score is strictly greater than min_MWE_PMI; a
\* bigram whose score equals min_MWE_PMI is not in it.
C1_Exclusive ==
    SelectionDone =>
        /\ mwes = { g \in AdjacentBigrams(tokens_by_sent_by_doc_) :
                    score_ngram(bigramer, g) > min_MWE_PMI }
        /\ \A g \in AdjacentBigrams(tokens_by_sent_by_doc_) :
               score_ngram(bigramer, g) = min_MWE_PMI => g \notin mwes

\* a selection that found bigrams above the threshold and one exactly at it
C1_Witness ==
    /\ pc = "Contracting"
    /\ \E g \in AdjacentBigrams(tokens_by_sent_by_doc_) :
           score_ngram(bigramer, g) = min_MWE_PMI

\* C3 (as stated): with max_MWE_iterations < 0 fit never returns normally.
C3_NeverReturns == max_MWE_iterations < 0 => pc # "Converged"

\* C3 (amended): with max_MWE_iterations < 0 fit raises nothing and runs no
\* iteration: it returns normally with the tokenizer's output, untouched.
C3_ReturnsTokenizerOutput ==
    max_MWE_iterations < 0 =>
        /\ pc \in { "Start", "Converged" }
        /\ i = 0 /\ bigramer = NoFinder /\ mwes = {}
        /\ pc = "Converged" => tokens_by_sent_by_doc_ = TokenizerOutput

C3_Witness ==
    /\ max_MWE_iterations < 0
    /\ pc = "Converged"
    /\ AdjacentBigrams(tokens_by_sent_by_doc_) # {}

\* C4: when above_score returns no bigram, fit goes from the selection
\* straight to Converged, leaving the structure and the iteration count as
\* they were, although iterations remain; and nothing happens after Converged.
C4_Convergence ==
    [][ /\ (pc = "Selecting" /\ pc' # "Raised" /\ mwes' = {}) =>
              (pc' = "Converged" /\ i' = i /\ i < max_MWE_iterations
               /\ tokens_by_sent_by_doc_' = tokens_by_sent_by_doc_)
        /\ pc # "Converged" ]_vars

\* fit has converged on an empty selection after a pass, iterations remaining
C4_Witness ==
    /\ pc = "Converged"
    /\ i >= 1 /\ i < max_MWE_iterations
    /\ mwes = {}

\* the steps fit can still take: three for each iteration of the budget left
RemainingSteps ==
    LET left == IF max_MWE_iterations > i THEN max_MWE_iterations - i ELSE 0
    IN  CASE pc = "Start"       -> 3 * left + 1
          [] pc = "Scoring"     -> 3 * left
          [] pc = "Selecting"   -> 3 * left - 1
          [] pc = "Contracting" -> 3 * left - 2
          [] OTHER              -> 0

\* C5: with max_MWE_iterations >= 0 at most max_MWE_iterations passes are made
\* and fit is over as soon as that many are made; with 0 nothing is scored or
\* contracted and the structure is the tokenizer's output; and fit terminates:
\* until it has, a step is possible and every step lowers RemainingSteps.
C5_Bounded ==
    /\ [](max_MWE_iterations >= 0 =>
            /\ i <= max_MWE_iterations
            /\ (pc # "Start" /\ i >= max_MWE_iterations) => pc = "Converged"
            /\ max_MWE_iterations = 0 =>
                   /\ pc \in { "Start", "Converged" }
                   /\ bigramer = NoFinder /\ mwes = {}
                   /\ pc = "Converged" => tokens_by_sent_by_doc_ = TokenizerOutput)
    /\ [](RemainingSteps >= 0 /\ (~Terminated => ENABLED Next))
    /\ [][RemainingSteps' < RemainingSteps]_vars

\* the budget is used up while bigrams above the threshold remain
C5_Witness ==
    /\ pc = "Converged"
    /\ max_MWE_iterations >= 1 /\ i = max_MWE_iterations
    /\ LET finder == from_documents(tokens_by_sent(tokens_by_sent_by_doc_))
       IN  ~ScoringRaises(finder) /\ above_score(finder, min_MWE_PMI) # {}

\* C6: once tokenized, the structure and tokens_by_doc have one document per
\* input document, in place, an empty input document having no token; the
\* scorer sees the corpus as if the empty documents were not there, and a
\* collection of empty documents only never raises.
C6_DocumentCount ==
    pc # "Start" =>
        /\ Len(tokens_by_sent_by_doc_) = Len(X)
        /\ Len(tokens_by_doc(tokens_by_sent_by_doc_)) = Len(X)
        /\ \A d \in 1..Len(X) :
               /\ Len(tokens_by_sent_by_doc_[d]) = Len(X[d])
               /\ X[d] = <<>> => tokens_by_doc(tokens_by_sent_by_doc_)[d] = <<>>
        /\ pc = "Selecting" =>
               bigramer = from_documents(tokens_by_sent(
                              SelectSeq(tokens_by_sent_by_doc_, LAMBDA d : d # <<>>)))
        /\ (\A d \in 1..Len(X) : X[d] = <<>>) => pc # "Raised"

\* passes have run over a corpus that holds an empty document
C6_Witness ==
    /\ pc = "Converged"
    /\ i >= 1
    /\ \E d \in 1..Len(X) : X[d] = <<>>
    /\ \E d \in 1..Len(X) : X[d] # <<>>

(***************************************************************************)
(* One pass, sentence by sentence: seg[k] is the number of tokens of the   *)
(* sentence before the pass that make up token k of the sentence after it. *)
(***************************************************************************)
StartOf(seg, k) == k + Cardinality({ j \in 1..k - 1 : seg[j] = 2 })

IsSegmentation(pre, post, seg) ==
    /\ StartOf(seg, Len(post) + 1) = Len(pre) + 1
    /\ \A k \in 1..Len(post) :
           post[k] = IF seg[k] = 1 THEN pre[StartOf(seg, k)]
                     ELSE Join(pre[StartOf(seg, k)], pre[StartOf(seg, k) + 1])

Segmentations(pre, post) ==
    { seg \in [1..Len(post) -> { 1, 2 }] : IsSegmentation(pre, post, seg) }

MergedAt(seg, p) == \E k \in DOMAIN seg : seg[k] = 2 /\ StartOf(seg, k) = p

Sentences(t) == UNION { { <<d, s>> : s \in 1..Len(t[d]) } : d \in 1..Len(t) }

\* a pass has just been made with the pairs in mwes
PassMade == i >= 1 /\ mwes # {} /\ pc \in { "Scoring", "Selecting", "Converged" }

\* C2 (as stated): a pass keeps the document and sentence counts and merges
\* every adjacent occurrence of every selected pair.
C2_EveryOccurrence ==
    [][ pc = "Contracting" =>
          /\ SameShape(tokens_by_sent_by_doc_, tokens_by_sent_by_doc_')
          /\ \A ds \in Sentences(tokens_by_sent_by_doc_) :
                LET pre  == tokens_by_sent_by_doc_[ds[1]][ds[2]]
                    post == tokens_by_sent_by_doc_'[ds[1]][ds[2]]
                IN  \E seg \in Segmentations(pre, post) :
                       \A p \in 1..Len(pre) - 1 :
                          <<pre[p], pre[p + 1]>> \in mwes => MergedAt(seg, p) ]_vars

\* C2 (amended): a pass keeps the document and sentence counts and merges
\* every adjacent occurrence of every selected pair, in every sentence of
\* every document, except an occurrence whose first token the scan has just
\* merged with the token before it.
C2_EveryFreeOccurrence ==
    [][ pc = "Contracting" =>
          /\ SameShape(tokens_by_sent_by_doc_, tokens_by_sent_by_doc_')
          /\ \A ds \in Sentences(tokens_by_sent_by_doc_) :
                LET pre  == tokens_by_sent_by_doc_[ds[1]][ds[2]]
                    post == tokens_by_sent_by_doc_'[ds[1]][ds[2]]
                IN  \E seg \in Segmentations(pre, post) :
                       \A p \in 1..Len(pre) - 1 :
                          <<pre[p], pre[p + 1]>> \in mwes =>
                              MergedAt(seg, p) \/ MergedAt(seg, p - 1) ]_vars

\* after a pass: a merged pair x_y followed by z, with (y, z) selected too
C2_Witness ==
    /\ PassMade /\ i = 1
    /\ \E ds \in Sentences(tokens_by_sent_by_doc_) :
          LET post == tokens_by_sent_by_doc_[ds[1]][ds[2]]
          IN  \E g \in mwes, h \in mwes :
                 /\ g[2] = h[1]
                 /\ \E k \in 1..Len(post) - 1 :
                        post[k] = Join(g[1], g[2]) /\ post[k + 1] = h[2]

\* C7: no step after tokenization changes the number of documents or the
\* number of sentences of a document, or makes a sentence longer.
C7_ShapePreserved ==
    [][ pc # "Start" =>
          /\ SameShape(tokens_by_sent_by_doc_, tokens_by_sent_by_doc_')
          /\ \A ds \in Sentences(tokens_by_sent_by_doc_) :
                Len(tokens_by_sent_by_doc_'[ds[1]][ds[2]])
                    <= Len(tokens_by_sent_by_doc_[ds[1]][ds[2]]) ]_vars

\* after a pass: a document of two sentences, one of them shortened
C7_Witness ==
    /\ PassMade
    /\ \E d \in 1..Len(tokens_by_sent_by_doc_) :
          /\ Len(tokens_by_sent_by_doc_[d]) = 2
          /\ \E s \in 1..2 :
                Len(tokens_by_sent_by_doc_[d][s]) < Len(TokenizerOutput[d][s])

\* C8: a pass turns every sentence into a sequence of blocks of the sentence
\* before it, each one token or the join of two adjacent tokens that form a
\* selected pair, and a token left alone does not start a selected pair with
\* the token after it (the scan is left to right and greedy).
C8_GreedyNonOverlapping ==
    [][ pc = "Contracting" =>
          /\ SameShape(tokens_by_sent_by_doc_, tokens_by_sent_by_doc_')
          /\ \A ds \in Sentences(tokens_by_sent_by_doc_) :
                LET pre  == tokens_by_sent_by_doc_[ds[1]][ds[2]]
                    post == tokens_by_sent_by_doc_'[ds[1]][ds[2]]
                IN  \E seg \in Segmentations(pre, post) :
                       \A k \in 1..Len(post) :
                          LET p == StartOf(seg, k)
                          IN  /\ seg[k] = 2 => <<pre[p], pre[p + 1]>> \in mwes
                              /\ (seg[k] = 1 /\ p < Len(pre)) =>
                                     <<pre[p], pre[p + 1]>> \notin mwes ]_vars

\* after the first pass: x_y then z in a sentence x y z, (x, y) and (y, z) selected
C8_Witness ==
    /\ PassMade /\ i = 1
    /\ \E ds \in Sentences(tokens_by_sent_by_doc_) :
          LET pre  == TokenizerOutput[ds[1]][ds[2]]
              post == tokens_by_sent_by_doc_[ds[1]][ds[2]]
          IN  /\ Len(pre) = 3
              /\ <<pre[1], pre[2]>> \in mwes /\ <<pre[2], pre[3]>> \in mwes
              /\ post = << Join(pre[1], pre[2]), pre[3] >>

\* str.split("_") of a token
RECURSIVE Split(_)
Split(w) ==
    IF \A k \in 1..Len(w) : w[k] # "_" THEN << w >>
    ELSE LET k == CHOOSE j \in 1..Len(w) :
                     w[j] = "_" /\ \A m \in 1..j - 1 : w[m] # "_"
         IN  << SubSeq(w, 1, k - 1) >> \o Split(SubSeq(w, k + 1, Len(w)))

RECURSIVE SplitAll(_)
SplitAll(sent) ==
    IF sent = <<>> THEN <<>> ELSE Split(Head(sent)) \o SplitAll(Tail(sent))

NoSeparator(sent) == \A k \in 1..Len(sent) : \A m \in 1..Len(sent[k]) : sent[k][m] # "_"

\* C9: whatever the number of passes, every sentence whose tokens held no "_"
\* when the tokenizer produced them is given back, token for token, by
\* splitting its tokens on "_".
C9_SplitRestores ==
    pc # "Start" =>
        /\ SameShape(TokenizerOutput, tokens_by_sent_by_doc_)
        /\ \A ds \in Sentences(TokenizerOutput) :
               NoSeparator(TokenizerOutput[ds[1]][ds[2]]) =>
                   SplitAll(tokens_by_sent_by_doc_[ds[1]][ds[2]])
                       = TokenizerOutput[ds[1]][ds[2]]

\* two passes have turned a sentence x y z without "_" into the token x_y_z
C9_Witness ==
    /\ i = 2
    /\ \E ds \in Sentences(TokenizerOutput) :
          /\ NoSeparator(TokenizerOutput[ds[1]][ds[2]])
          /\ Len(TokenizerOutput[ds[1]][ds[2]]) = 3
          /\ Len(tokens_by_sent_by_doc_[ds[1]][ds[2]]) = 1

\* C10: the pairs a pass is made with are bigrams adjacent in the corpus, at
\* least one, and the pass makes the corpus at least one token shorter.
C10_StrictDecrease ==
    [][ pc = "Contracting" =>
          /\ mwes # {}
          /\ mwes \subseteq AdjacentBigrams(tokens_by_sent_by_doc_)
          /\ TotalTokens(tokens_by_sent_by_doc_')
                 < TotalTokens(tokens_by_sent_by_doc_) ]_vars

\* two passes, each of which made the corpus shorter
C10_Witness ==
    /\ PassMade /\ i = 2
    /\ TotalTokens(tokens_by_sent_by_doc_) + 2 <= TotalTokens(TokenizerOutput)

====
